---- MODULE Spec2Model ----
(***************************************************************************)
(* Model of src/lambda/cost_alerter.py: the scheduled cost governor.       *)
(*                                                                         *)
(* One invocation of lambda_handler is a run from pc = "get_costs" to      *)
(* pc = "returned" (a summary was returned) or pc = "raised" (the cost     *)
(* fetch raised and the exception left the handler).  Every call to an     *)
(* external collaborator (Cost Explorer, EC2, RDS, Lambda, S3, ntfy) is    *)
(* one step; its outcome is drawn by the environment.  A failing boto3     *)
(* call raises ClientError and a failing delivery raises URLError or       *)
(* answers with a status other than 200: the failures the code handles.    *)
(*                                                                         *)
(* events is the per-invocation record of what the handler did to the      *)
(* outside world, in order.  Calls that change the account, deliveries     *)
(* and the cost fetch carry their outcome (ok); read-only queries do not.  *)
(***************************************************************************)
EXTENDS Integers, Sequences, FiniteSets

VARIABLES
    pc,                 \* position of the handler
    ec2, nat, rds,      \* the account: state of each instance, gateway, database
    events,             \* external calls of this invocation, in order
    alert_threshold, critical_threshold,   \* lambda_handler locals
    current_cost, forecasted_cost, response,
    resources, lar_caller,                 \* list_active_resources
    enable_nuke, dry_run,                  \* execute_resource_nuke locals
    terminated, errors, instance_ids, nat_gws, dbs, nuke_result

vars == <<pc, ec2, nat, rds, events, alert_threshold, critical_threshold,
          current_cost, forecasted_cost, response, resources, lar_caller,
          enable_nuke, dry_run, terminated, errors, instance_ids, nat_gws,
          dbs, nuke_result>>

-----------------------------------------------------------------------------
\* Bounds of the model.
MaxAmount == 2
NumInstances == 1
NumNatGateways == 1
NumDBInstances == 1

Amounts == 0..MaxAmount
Instances == 1..NumInstances
NatGateways == 1..NumNatGateways
DBInstances == 1..NumDBInstances

NoneVal == "None"
\* A forecast is <<>> for Python's None, or an amount; the amount only ever
\* reaches the text of a message and the summary, so it is left opaque.
Forecasts == {<<>>, <<"amount">>}
SendOutcomes == {"200", "non200", "URLError"}
Ec2States == {"running", "pending", "stopped"}
NatStates == {"available", "pending", "deleted"}
RdsStates == {"available", "stopped"}

-----------------------------------------------------------------------------
\* Helpers.

\* The elements of the set of integers S in increasing order.
RECURSIVE SeqOf(_)
SeqOf(S) ==
    IF S = {} THEN <<>>
    ELSE LET m == CHOOSE x \in S : \A y \in S : x <= y
         IN <<m>> \o SeqOf(S \ {m})

\* send_ntfy_alert: one POST; True iff the answer is 200, False on URLError.
SendNtfyAlert(title, priority, outcome) ==
    [op |-> "ntfy", title |-> title, priority |-> priority,
     ok |-> (outcome = "200")]

\* Tier with the boundaries exclusive.
TierStrict(total, alert, critical) ==
    IF total > critical THEN "Critical"
    ELSE IF total > alert THEN "Alert"
    ELSE "Normal"

\* lambda_handler's if / elif / else over the two thresholds.
Tier(total, alert, critical) ==
    IF total >= critical THEN "Critical"
    ELSE IF total >= alert THEN "Alert"
    ELSE "Normal"

\* ActionGate skipping only when the dry-run flag is set as well.
ActionGateSkipNeedsDry(enable, dry) ==
    IF ~enable /\ dry THEN "Skip"
    ELSE IF dry THEN "DryRun"
    ELSE "Execute"

\* ActionGate with the dry-run flag read the wrong way round.
ActionGateDryInverted(enable, dry) ==
    IF ~enable THEN "Skip"
    ELSE IF ~dry THEN "DryRun"
    ELSE "Execute"

\* execute_resource_nuke's two flag tests.
ActionGate(enable, dry) ==
    IF ~enable THEN "Skip"
    ELSE IF dry THEN "DryRun"
    ELSE "Execute"

-----------------------------------------------------------------------------
\* Resources of one kind are interchangeable (no code reads an identifier
\* except to pass it on), so the identifiers are handed out in the order of
\* the states: one account per multiset of states.
Rank(order, state) == CHOOSE k \in DOMAIN order : order[k] = state
InOrder(f, order) ==
    \A i \in DOMAIN f, j \in DOMAIN f :
        i < j => Rank(order, f[i]) <= Rank(order, f[j])

Init ==
    /\ pc = "idle"
    /\ ec2 \in [Instances -> Ec2States]
    /\ InOrder(ec2, <<"running", "pending", "stopped">>)
    /\ nat \in [NatGateways -> {"available", "pending"}]
    /\ InOrder(nat, <<"available", "pending">>)
    /\ rds \in [DBInstances -> RdsStates]
    /\ InOrder(rds, <<"available", "stopped">>)
    /\ events = <<>>
    /\ alert_threshold = NoneVal
    /\ critical_threshold = NoneVal
    /\ current_cost = NoneVal
    /\ forecasted_cost = <<>>
    /\ response = NoneVal
    /\ resources = <<>>
    /\ lar_caller = NoneVal
    /\ enable_nuke = NoneVal
    /\ dry_run = NoneVal
    /\ terminated = <<>>
    /\ errors = <<>>
    /\ instance_ids = {}
    /\ nat_gws = <<>>
    /\ dbs = <<>>
    /\ nuke_result = NoneVal

account == <<ec2, nat, rds>>
handler_locals == <<alert_threshold, critical_threshold, current_cost,
                    forecasted_cost, response>>
lar_locals == <<resources, lar_caller>>
nuke_locals == <<enable_nuke, dry_run, terminated, errors, instance_ids,
                 nat_gws, dbs, nuke_result>>

\* The scheduler invokes lambda_handler; the thresholds are read from the
\* environment.  The handler keeps nothing between invocations, so a behaviour
\* is one invocation, started on any state of the account.
Invoke ==
    /\ pc = "idle"
    /\ \E a \in Amounts, c \in Amounts :
          /\ alert_threshold' = a
          /\ critical_threshold' = c
    /\ events' = <<>>
    /\ current_cost' = NoneVal
    /\ forecasted_cost' = <<>>
    /\ response' = NoneVal
    /\ pc' = "get_costs"
    /\ UNCHANGED <<account, lar_locals, nuke_locals>>

\* GetCurrentMonthCosts with the ClientError swallowed and a zero total returned.
GetCurrentMonthCostsSwallow ==
    /\ pc = "get_costs"
    /\ \/ \E total \in Amounts :
             /\ events' = Append(events, [op |-> "get_cost_and_usage", ok |-> TRUE])
             /\ current_cost' = total
       \/ /\ events' = Append(events, [op |-> "get_cost_and_usage", ok |-> FALSE])
          /\ current_cost' = 0
    /\ pc' = "get_forecast"
    /\ UNCHANGED <<account, alert_threshold, critical_threshold, forecasted_cost,
                   response, lar_locals, nuke_locals>>

\* get_current_month_costs: the total, or ClientError re-raised.
GetCurrentMonthCosts ==
    /\ pc = "get_costs"
    /\ \/ \E total \in Amounts :
             /\ events' = Append(events, [op |-> "get_cost_and_usage", ok |-> TRUE])
             /\ current_cost' = total
             /\ pc' = "get_forecast"
             /\ UNCHANGED <<alert_threshold, critical_threshold>>
       \/ /\ events' = Append(events, [op |-> "get_cost_and_usage", ok |-> FALSE])
          /\ pc' = "raised"
          /\ alert_threshold' = NoneVal
          /\ critical_threshold' = NoneVal
          /\ UNCHANGED current_cost
    /\ UNCHANGED <<account, forecasted_cost, response, lar_locals, nuke_locals>>

\* get_forecasted_month_end_cost: the forecast, or None on ClientError.
GetForecastedMonthEndCost ==
    /\ pc = "get_forecast"
    /\ events' = Append(events, [op |-> "get_cost_forecast"])
    /\ forecasted_cost' \in Forecasts
    /\ pc' = "classify"
    /\ UNCHANGED <<account, alert_threshold, critical_threshold, current_cost,
                   response, lar_locals, nuke_locals>>

\* lambda_handler: the summary is initialised, then the branch is chosen and
\* announced on the log output.
Classify ==
    /\ pc = "classify"
    /\ response' = [current_cost |-> current_cost,
                    alert_threshold |-> alert_threshold,
                    critical_threshold |-> critical_threshold,
                    forecasted_cost |-> forecasted_cost,
                    alert_sent |-> FALSE,
                    nuke_triggered |-> FALSE,
                    nuke_result |-> NoneVal]
    /\ LET tier == Tier(current_cost, alert_threshold, critical_threshold) IN
          /\ events' = Append(events, [op |-> "print", tier |-> tier])
          /\ pc' = CASE tier = "Critical" -> "lar_ec2"
                     [] tier = "Alert" -> "alert"
                     [] OTHER -> "normal"
          /\ lar_caller' = IF tier = "Critical" THEN "trigger_nuke_warning"
                           ELSE lar_caller
    /\ UNCHANGED <<account, alert_threshold, critical_threshold, current_cost,
                   forecasted_cost, resources, nuke_locals>>

-----------------------------------------------------------------------------
\* list_active_resources: five queries, each in its own try block; a category
\* is listed when its query succeeds and counts at least one resource.

Count(f, states) == Cardinality({x \in DOMAIN f : f[x] \in states})

Listed(res, category, ok, count) ==
    IF ok /\ count > 0 THEN Append(res, [category |-> category, count |-> count])
    ELSE res

LarEc2 ==
    /\ pc = "lar_ec2"
    /\ events' = Append(events, [op |-> "describe_instances"])
    /\ \E ok \in BOOLEAN :
          resources' = Listed(<<>>, "EC2 Instances", ok,
                              Count(ec2, {"running", "pending"}))
    /\ pc' = "lar_rds"
    /\ UNCHANGED <<account, handler_locals, lar_caller, nuke_locals>>

LarRds ==
    /\ pc = "lar_rds"
    /\ events' = Append(events, [op |-> "describe_db_instances"])
    /\ \E ok \in BOOLEAN :
          resources' = Listed(resources, "RDS Instances", ok,
                              Count(rds, RdsStates))
    /\ pc' = "lar_nat"
    /\ UNCHANGED <<account, handler_locals, lar_caller, nuke_locals>>

LarNat ==
    /\ pc = "lar_nat"
    /\ events' = Append(events, [op |-> "describe_nat_gateways"])
    /\ \E ok \in BOOLEAN :
          resources' = Listed(resources, "NAT Gateways", ok,
                              Count(nat, {"available", "pending"}))
    /\ pc' = "lar_lambda"
    /\ UNCHANGED <<account, handler_locals, lar_caller, nuke_locals>>

LarLambda ==
    /\ pc = "lar_lambda"
    /\ events' = Append(events, [op |-> "list_functions"])
    /\ \E ok \in BOOLEAN, func_count \in 0..1 :
          resources' = Listed(resources, "Lambda Functions", ok, func_count)
    /\ pc' = "lar_s3"
    /\ UNCHANGED <<account, handler_locals, lar_caller, nuke_locals>>

LarS3 ==
    /\ pc = "lar_s3"
    /\ events' = Append(events, [op |-> "list_buckets"])
    /\ \E ok \in BOOLEAN, bucket_count \in 0..1 :
          resources' = Listed(resources, "S3 Buckets", ok, bucket_count)
    /\ pc' = IF lar_caller = "trigger_nuke_warning" THEN "warn_send"
             ELSE "dry_send"
    /\ UNCHANGED <<account, handler_locals, lar_caller, nuke_locals>>

\* NukeWarning posting only when the listing is not empty.
NukeWarningIfListed(res, outcome) ==
    IF res = <<>> THEN <<>>
    ELSE <<SendNtfyAlert("CRITICAL: AWS Cost Emergency", "urgent", outcome)>>

\* trigger_nuke_warning: what it posts once the listing is in hand.
NukeWarning(res, outcome) ==
    <<SendNtfyAlert("CRITICAL: AWS Cost Emergency", "urgent", outcome)>>

\* TriggerNukeWarning without send_ntfy_alert's except clause: a URLError
\* propagates.
TriggerNukeWarningRaises ==
    /\ pc = "warn_send"
    /\ \E outcome \in SendOutcomes :
          /\ events' = events \o NukeWarning(resources, outcome)
          /\ pc' = IF outcome = "URLError" THEN "raised" ELSE "nuke_gate"
    /\ resources' = <<>>
    /\ lar_caller' = NoneVal
    /\ UNCHANGED <<account, handler_locals, nuke_locals>>

TriggerNukeWarning ==
    /\ pc = "warn_send"
    /\ \E outcome \in SendOutcomes :
          events' = events \o NukeWarning(resources, outcome)
    /\ resources' = <<>>
    /\ lar_caller' = NoneVal
    /\ pc' = "nuke_gate"
    /\ UNCHANGED <<account, handler_locals, nuke_locals>>

-----------------------------------------------------------------------------
\* execute_resource_nuke.

\* The two flags are read from the environment and the gate is decided.
ExecuteResourceNuke ==
    /\ pc = "nuke_gate"
    /\ \E enable \in BOOLEAN, dry \in BOOLEAN :
          /\ enable_nuke' = enable
          /\ dry_run' = dry
          /\ events' = Append(events, [op |-> "environ", enable |-> enable,
                                       dry |-> dry])
          /\ pc' = CASE ActionGate(enable, dry) = "Skip" -> "nuke_skip"
                     [] ActionGate(enable, dry) = "DryRun" -> "lar_ec2"
                     [] OTHER -> "nuke_ec2"
          /\ lar_caller' = IF ActionGate(enable, dry) = "DryRun"
                           THEN "execute_resource_nuke" ELSE lar_caller
    /\ UNCHANGED <<account, handler_locals, resources, terminated, errors,
                   instance_ids, nat_gws, dbs, nuke_result>>

\* Auto-nuke disabled: one notification, then return.
NukeSkipped ==
    /\ pc = "nuke_skip"
    /\ \E outcome \in SendOutcomes :
          events' = Append(events,
              SendNtfyAlert("Nuke Skipped - Manual Action Required", "high", outcome))
    /\ nuke_result' = [status |-> "skipped", reason |-> "auto_nuke_disabled"]
    /\ pc' = "nuke_return"
    /\ UNCHANGED <<account, handler_locals, lar_locals, enable_nuke, dry_run,
                   terminated, errors, instance_ids, nat_gws, dbs>>

\* Dry run: the listing is posted and returned.
NukeDryRun ==
    /\ pc = "dry_send"
    /\ \E outcome \in SendOutcomes :
          events' = Append(events, SendNtfyAlert("Nuke DRY RUN", "high", outcome))
    /\ nuke_result' = [status |-> "dry_run", resources |-> resources]
    /\ resources' = <<>>
    /\ lar_caller' = NoneVal
    /\ pc' = "nuke_return"
    /\ UNCHANGED <<account, handler_locals, enable_nuke, dry_run, terminated,
                   errors, instance_ids, nat_gws, dbs>>

\* An entry of errors: f"{category}: {str(e)}", where the text of a ClientError
\* names the operation that failed.
ErrorEntry(category, operation) == [category |-> category, operation |-> operation]

\* Execute, EC2: the running instances are collected.
NukeEc2Describe ==
    /\ pc = "nuke_ec2"
    /\ events' = Append(events, [op |-> "describe_instances"])
    /\ terminated' = <<>>
    /\ \/ LET ids == {i \in Instances : ec2[i] = "running"} IN
             /\ instance_ids' = ids
             /\ errors' = <<>>
             /\ pc' = IF ids # {} THEN "nuke_ec2_stop" ELSE "nuke_nat"
       \/ /\ errors' = <<ErrorEntry("EC2", "describe_instances")>>
          /\ pc' = "nuke_nat"
          /\ UNCHANGED instance_ids
    /\ UNCHANGED <<account, handler_locals, lar_locals, enable_nuke, dry_run,
                   nat_gws, dbs, nuke_result>>

\* Execute, EC2: one stop_instances call for all collected instances.
NukeEc2Stop ==
    /\ pc = "nuke_ec2_stop"
    /\ \/ /\ events' = Append(events, [op |-> "stop_instances", ok |-> TRUE])
          /\ ec2' = [i \in Instances |->
                        IF i \in instance_ids THEN "stopped" ELSE ec2[i]]
          /\ terminated' = Append(terminated,
                 [category |-> "EC2", count |-> Cardinality(instance_ids)])
          /\ UNCHANGED errors
       \/ /\ events' = Append(events, [op |-> "stop_instances", ok |-> FALSE])
          /\ errors' = Append(errors, ErrorEntry("EC2", "stop_instances"))
          /\ UNCHANGED <<ec2, terminated>>
    /\ instance_ids' = {}
    /\ pc' = "nuke_nat"
    /\ UNCHANGED <<nat, rds, handler_locals, lar_locals, enable_nuke, dry_run,
                   nat_gws, dbs, nuke_result>>

\* Execute, NAT: the available gateways are collected.
NukeNatDescribe ==
    /\ pc = "nuke_nat"
    /\ events' = Append(events, [op |-> "describe_nat_gateways"])
    /\ \/ LET gws == SeqOf({g \in NatGateways : nat[g] = "available"}) IN
             /\ nat_gws' = gws
             /\ pc' = IF gws # <<>> THEN "nuke_nat_delete" ELSE "nuke_rds"
             /\ UNCHANGED errors
       \/ /\ errors' = Append(errors, ErrorEntry("NAT Gateway", "describe_nat_gateways"))
          /\ pc' = "nuke_rds"
          /\ UNCHANGED nat_gws
    /\ UNCHANGED <<account, handler_locals, lar_locals, enable_nuke, dry_run,
                   terminated, instance_ids, dbs, nuke_result>>

\* Execute, NAT: one pass of the loop; a ClientError leaves the loop.
NukeNatDelete ==
    /\ pc = "nuke_nat_delete"
    /\ LET g == Head(nat_gws) IN
          \/ /\ events' = Append(events, [op |-> "delete_nat_gateway", id |-> g,
                                          ok |-> TRUE])
             /\ nat' = [nat EXCEPT ![g] = "deleted"]
             /\ terminated' = Append(terminated, [category |-> "NAT Gateway", id |-> g])
             /\ nat_gws' = Tail(nat_gws)
             /\ pc' = IF Tail(nat_gws) # <<>> THEN "nuke_nat_delete" ELSE "nuke_rds"
             /\ UNCHANGED errors
          \/ /\ events' = Append(events, [op |-> "delete_nat_gateway", id |-> g,
                                          ok |-> FALSE])
             /\ errors' = Append(errors, ErrorEntry("NAT Gateway", "delete_nat_gateway"))
             /\ nat_gws' = <<>>
             /\ pc' = "nuke_rds"
             /\ UNCHANGED <<nat, terminated>>
    /\ UNCHANGED <<ec2, rds, handler_locals, lar_locals, enable_nuke, dry_run,
                   instance_ids, dbs, nuke_result>>

\* Execute, RDS: every database is collected, whatever its status.
NukeRdsDescribe ==
    /\ pc = "nuke_rds"
    /\ events' = Append(events, [op |-> "describe_db_instances"])
    /\ \/ LET all == SeqOf(DBInstances) IN
             /\ dbs' = [k \in DOMAIN all |->
                          [id |-> all[k], DBInstanceStatus |-> rds[all[k]]]]
             /\ pc' = IF all # <<>> THEN "nuke_rds_stop" ELSE "nuke_summary"
             /\ UNCHANGED errors
       \/ /\ errors' = Append(errors, ErrorEntry("RDS", "describe_db_instances"))
          /\ pc' = "nuke_summary"
          /\ UNCHANGED dbs
    /\ UNCHANGED <<account, handler_locals, lar_locals, enable_nuke, dry_run,
                   terminated, instance_ids, nat_gws, nuke_result>>

\* What a stop_db_instance that raised ClientError adds to errors: the inner
\* except clause is a bare pass.
RdsStopRejected(errs) == errs

\* Execute, RDS: one pass of the loop over the databases.
NukeRdsStop ==
    /\ pc = "nuke_rds_stop"
    /\ LET db == Head(dbs) IN
          \/ /\ db.DBInstanceStatus # "available"
             /\ UNCHANGED <<events, rds, terminated, errors>>
          \/ /\ db.DBInstanceStatus = "available"
             /\ events' = Append(events, [op |-> "stop_db_instance", id |-> db.id,
                                          ok |-> TRUE])
             /\ rds' = [rds EXCEPT ![db.id] = "stopped"]
             /\ terminated' = Append(terminated, [category |-> "RDS", id |-> db.id])
             /\ UNCHANGED errors
          \/ /\ db.DBInstanceStatus = "available"
             /\ events' = Append(events, [op |-> "stop_db_instance", id |-> db.id,
                                          ok |-> FALSE])
             /\ errors' = RdsStopRejected(errors)
             /\ UNCHANGED <<rds, terminated>>
    /\ dbs' = Tail(dbs)
    /\ pc' = IF Tail(dbs) # <<>> THEN "nuke_rds_stop" ELSE "nuke_summary"
    /\ UNCHANGED <<ec2, nat, handler_locals, lar_locals, enable_nuke, dry_run,
                   instance_ids, nat_gws, nuke_result>>

\* NukeSummary posting only when no category reported an error.
NukeSummaryIfClean(done, errs, outcome) ==
    IF errs # <<>> THEN <<>>
    ELSE <<SendNtfyAlert("Resource Nuke Complete", "urgent", outcome)>>

\* What execute_resource_nuke posts after the three categories.
NukeSummary(done, errs, outcome) ==
    <<SendNtfyAlert("Resource Nuke Complete", "urgent", outcome)>>

\* Execute: the summary is posted and the report returned.
NukeExecuted ==
    /\ pc = "nuke_summary"
    /\ \E outcome \in SendOutcomes :
          events' = events \o NukeSummary(terminated, errors, outcome)
    /\ nuke_result' = [status |-> "executed", terminated |-> terminated,
                       errors |-> errors]
    /\ terminated' = <<>>
    /\ errors' = <<>>
    /\ pc' = "nuke_return"
    /\ UNCHANGED <<account, handler_locals, lar_locals, enable_nuke, dry_run,
                   instance_ids, nat_gws, dbs>>

-----------------------------------------------------------------------------
\* lambda_handler, after the branch.

\* Critical: the result of execute_resource_nuke is stored and the summary returned.
CriticalReturn ==
    /\ pc = "nuke_return"
    /\ response' = [response EXCEPT !.nuke_triggered = TRUE,
                                    !.nuke_result = nuke_result,
                                    !.alert_sent = TRUE]
    /\ nuke_result' = NoneVal
    /\ enable_nuke' = NoneVal
    /\ dry_run' = NoneVal
    /\ alert_threshold' = NoneVal
    /\ critical_threshold' = NoneVal
    /\ current_cost' = NoneVal
    /\ forecasted_cost' = <<>>
    /\ pc' = "returned"
    /\ UNCHANGED <<account, events, lar_locals, terminated, errors, instance_ids,
                   nat_gws, dbs>>

\* Alert: one high-priority notification.
AlertBranch ==
    /\ pc = "alert"
    /\ \E outcome \in SendOutcomes :
          events' = Append(events, SendNtfyAlert("AWS Cost Alert", "high", outcome))
    /\ response' = [response EXCEPT !.alert_sent = TRUE]
    /\ alert_threshold' = NoneVal
    /\ critical_threshold' = NoneVal
    /\ current_cost' = NoneVal
    /\ forecasted_cost' = <<>>
    /\ pc' = "returned"
    /\ UNCHANGED <<account, lar_locals, nuke_locals>>

\* DailySummary posting whatever the flag says.
DailySummaryAlways(send_daily_summary, outcome) ==
    <<SendNtfyAlert("AWS Cost Summary", "low", outcome)>>

\* The Normal branch's post: a low-priority summary when SEND_DAILY_SUMMARY is
\* 'true', nothing otherwise.
DailySummary(send_daily_summary, outcome) ==
    IF send_daily_summary
    THEN <<SendNtfyAlert("AWS Cost Summary", "low", outcome)>>
    ELSE <<>>

\* Normal: the flag is read from the environment, then the summary is posted
\* or not.
NormalBranch ==
    /\ pc = "normal"
    /\ \E send_daily_summary \in BOOLEAN, outcome \in SendOutcomes :
          events' = Append(events, [op |-> "getenv",
                                    name |-> "SEND_DAILY_SUMMARY",
                                    value |-> send_daily_summary])
                       \o DailySummary(send_daily_summary, outcome)
    /\ alert_threshold' = NoneVal
    /\ critical_threshold' = NoneVal
    /\ current_cost' = NoneVal
    /\ forecasted_cost' = <<>>
    /\ pc' = "returned"
    /\ UNCHANGED <<account, response, lar_locals, nuke_locals>>

-----------------------------------------------------------------------------
Next ==
    \/ Invoke
    \/ GetCurrentMonthCosts
    \/ GetForecastedMonthEndCost
    \/ Classify
    \/ LarEc2
    \/ LarRds
    \/ LarNat
    \/ LarLambda
    \/ LarS3
    \/ TriggerNukeWarning
    \/ ExecuteResourceNuke
    \/ NukeSkipped
    \/ NukeDryRun
    \/ NukeEc2Describe
    \/ NukeEc2Stop
    \/ NukeNatDescribe
    \/ NukeNatDelete
    \/ NukeRdsDescribe
    \/ NukeRdsStop
    \/ NukeExecuted
    \/ CriticalReturn
    \/ AlertBranch
    \/ NormalBranch

Spec == Init /\ [][Next]_vars

-----------------------------------------------------------------------------
\* Reading the record of an invocation.

ActionOps == {"stop_instances", "delete_nat_gateway", "stop_db_instance"}
InventoryOps == {"describe_instances", "describe_db_instances",
                 "describe_nat_gateways", "list_functions", "list_buckets"}

IsNtfy(e) == e.op = "ntfy"
IsAction(e) == e.op \in ActionOps
IsInventory(e) == e.op \in InventoryOps
IsWarning(e) == IsNtfy(e) /\ e.title = "CRITICAL: AWS Cost Emergency"
                          /\ e.priority = "urgent"
IsCompletion(e) == IsNtfy(e) /\ e.title = "Resource Nuke Complete"

Where(Test(_)) == {i \in DOMAIN events : Test(events[i])}
Notifications == SelectSeq(events, IsNtfy)
ActionCalls == SelectSeq(events, IsAction)

\* The safety gate as this invocation read it.
IsGate(e) == e.op = "environ"
GateRead == Where(IsGate) # {}
GateIdx == CHOOSE i \in DOMAIN events : IsGate(events[i])
Gate == IF ~events[GateIdx].enable THEN "Skip"
        ELSE IF events[GateIdx].dry THEN "DryRun"
        ELSE "Execute"
SinceGate == SubSeq(events, GateIdx + 1, Len(events))

\* The category an ActionExecutor call belongs to, and the resource it targets
\* (stop_instances takes every collected instance in one call).
CategoryOf(e) == CASE e.op = "stop_instances" -> "EC2"
                   [] e.op = "delete_nat_gateway" -> "NAT Gateway"
                   [] e.op = "stop_db_instance" -> "RDS"
TargetOf(e) == IF e.op = "stop_instances" THEN 0 ELSE e.id

Returned == pc = "returned"
CriticalPcs == {"lar_ec2", "lar_rds", "lar_nat", "lar_lambda", "lar_s3",
                "warn_send", "nuke_gate", "nuke_skip", "dry_send", "nuke_ec2",
                "nuke_ec2_stop", "nuke_nat", "nuke_nat_delete", "nuke_rds",
                "nuke_rds_stop", "nuke_summary", "nuke_return"}

-----------------------------------------------------------------------------
\* C1: whatever the total and the two thresholds (alert above critical
\* included), the handler takes the Critical branch iff total >= critical, the
\* Alert branch iff total < critical and total >= alert, the Normal branch
\* otherwise; one branch per invocation, and total = critical is Critical.
IsBranch(e) == e.op = "print"
C1_TierSelection ==
    /\ Cardinality(Where(IsBranch)) <= 1
    /\ pc \in CriticalPcs \cup {"alert", "normal", "returned"}
          => Cardinality(Where(IsBranch)) = 1
    /\ \A i \in Where(IsBranch) :
          LET tier == events[i].tier
              total == response.current_cost
              alertLevel == response.alert_threshold
              criticalLevel == response.critical_threshold
          IN /\ tier = "Critical" <=> total >= criticalLevel
             /\ tier = "Alert" <=> (total < criticalLevel /\ total >= alertLevel)
             /\ tier = "Normal" <=> (total < criticalLevel /\ total < alertLevel)
             /\ total = criticalLevel => tier = "Critical"
             /\ pc \in CriticalPcs => tier = "Critical"
             /\ pc = "alert" => tier = "Alert"
             /\ pc = "normal" => tier = "Normal"

\* A tie on the critical threshold, with the alert threshold above it.
C1_Witness ==
    /\ Returned
    /\ response.current_cost = response.critical_threshold
    /\ response.alert_threshold > response.critical_threshold
    /\ \E i \in Where(IsBranch) : events[i].tier = "Critical"
    /\ Where(IsWarning) # {}

\* C2: when total >= critical the urgent warning is posted before the safety
\* gate is read and before any ActionExecutor call, whatever the two flags are.
C2_WarningFirst ==
    /\ \A i \in DOMAIN events :
          (IsGate(events[i]) \/ IsAction(events[i]))
             => \E j \in 1..(i - 1) : IsWarning(events[j])
    /\ pc \in {"nuke_gate", "nuke_return"} => Where(IsWarning) # {}
    /\ (Returned /\ response.current_cost >= response.critical_threshold)
          => /\ Cardinality(Where(IsWarning)) = 1
             /\ GateRead
             /\ \A i \in Where(IsWarning) : i < GateIdx

\* Execute mode with a gateway deleted, after a warning that was not delivered
\* and listed nothing.
C2_Witness ==
    /\ Returned
    /\ GateRead
    /\ Gate = "Execute"
    /\ \E i \in Where(IsAction) : events[i].op = "delete_nat_gateway"
    /\ \E j \in Where(IsWarning) : ~events[j].ok

\* C3: with auto-action disabled execute_resource_nuke, for either value of
\* the dry-run flag, posts exactly one "skipped, manual action required"
\* notification, calls no ActionExecutor operation, queries no inventory and
\* returns status 'skipped'.
C3_SkipWhenDisabled ==
    (GateRead /\ ~events[GateIdx].enable) =>
        /\ \A k \in DOMAIN SinceGate :
              ~IsAction(SinceGate[k]) /\ ~IsInventory(SinceGate[k])
        /\ Len(SinceGate) <= 1
        /\ pc \in {"nuke_return", "returned"} =>
              /\ Len(SinceGate) = 1
              /\ IsNtfy(SinceGate[1])
              /\ SinceGate[1].title = "Nuke Skipped - Manual Action Required"
        /\ pc = "nuke_return" => nuke_result.status = "skipped"
        /\ Returned => response.nuke_result.status = "skipped"

\* Skipped although the dry-run flag was off.
C3_Witness ==
    /\ Returned
    /\ GateRead
    /\ ~events[GateIdx].enable
    /\ ~events[GateIdx].dry
    /\ response.nuke_result.status = "skipped"

Titles(ns) == [k \in DOMAIN ns |-> ns[k].title]

\* C4: with auto-action enabled and dry-run on, a Critical invocation posts the
\* warning and then one dry-run listing, and calls no mutating ActionExecutor
\* operation, also when inventory queries or deliveries fail.
C4_DryRunNoMutation ==
    (GateRead /\ Gate = "DryRun") =>
        /\ Where(IsAction) = {}
        /\ pc \in {"nuke_return", "returned"} =>
              Titles(Notifications) =
                  <<"CRITICAL: AWS Cost Emergency", "Nuke DRY RUN">>
        /\ pc = "nuke_return" => nuke_result.status = "dry_run"
        /\ Returned => response.nuke_result.status = "dry_run"

\* A dry run whose listing misses the running instance (its query failed) and
\* whose listing notification was not delivered.
C4_Witness ==
    /\ Returned
    /\ GateRead
    /\ Gate = "DryRun"
    /\ \E i \in Instances : ec2[i] = "running"
    /\ \A k \in DOMAIN response.nuke_result.resources :
          response.nuke_result.resources[k].category # "EC2 Instances"
    /\ ~Notifications[2].ok

\* C5 (as claimed): in Execute mode the three categories are attempted in the
\* order compute, gateways, databases whatever fails; a category whose call
\* failed appears in the report's errors and one whose call succeeded appears
\* in its successes.
C5_PartialFailureIsolation ==
    (pc = "nuke_return" /\ Gate = "Execute") =>
        /\ [k \in DOMAIN SelectSeq(SinceGate, IsInventory) |->
               SelectSeq(SinceGate, IsInventory)[k].op]
             = <<"describe_instances", "describe_nat_gateways",
                 "describe_db_instances">>
        /\ \A i \in Where(IsAction) :
              IF events[i].ok
              THEN \E k \in DOMAIN nuke_result.terminated :
                      nuke_result.terminated[k].category = CategoryOf(events[i])
              ELSE \E k \in DOMAIN nuke_result.errors :
                      nuke_result.errors[k].category = CategoryOf(events[i])

FromAction(entry) == entry.operation \in ActionOps

\* C6 (as claimed): in Execute mode every ActionExecutor call, succeeded or
\* failed, is recorded in the returned report: the entries of terminated plus
\* the entries of errors that record a call are as many as the calls made, and
\* a rejected or failed call appears in errors.
C6_EveryAttemptRecorded ==
    (pc = "nuke_return" /\ Gate = "Execute") =>
        /\ Len(nuke_result.terminated)
             + Len(SelectSeq(nuke_result.errors, FromAction))
             = Len(ActionCalls)
        /\ \A i \in Where(IsAction) :
              ~events[i].ok =>
                 \E k \in DOMAIN nuke_result.errors :
                    /\ nuke_result.errors[k].category = CategoryOf(events[i])
                    /\ nuke_result.errors[k].operation = events[i].op

Delivered(e) == IsNtfy(e) /\ e.ok

\* C8 (as claimed): alert_sent in the returned summary is true iff at least
\* one notification went out during the invocation.
C8_AlertSentReflectsDelivery ==
    Returned => (response.alert_sent <=> Where(Delivered) # {})

\* C9 (as claimed): nuke_triggered in the returned summary is true iff the gate
\* said Execute and the action sequence ran, and then nuke_result is the
\* ActionReport.
C9_NukeTriggeredReflectsAction ==
    Returned =>
        /\ response.nuke_triggered <=> (GateRead /\ Gate = "Execute")
        /\ response.nuke_triggered => response.nuke_result.status = "executed"

IsFailedFetch(e) == e.op = "get_cost_and_usage" /\ ~e.ok

\* C10: when the cost fetch fails the invocation ends with the error raised:
\* nothing else was called (no notification, forecast, inventory query, gate
\* read or ActionExecutor call) and no summary exists.
C10_FetchFailureAborts ==
    Where(IsFailedFetch) # {} =>
        /\ pc = "raised"
        /\ Len(events) = 1
        /\ response = NoneVal
        /\ ~ENABLED Next

\* The cost fetch failed.
C10_Witness ==
    /\ pc = "raised"
    /\ Where(IsFailedFetch) # {}

IsSummaryFlag(e) == e.op = "getenv" /\ e.name = "SEND_DAILY_SUMMARY"
TierTaken == events[CHOOSE i \in Where(IsBranch) : TRUE].tier

\* C11: outside the Critical tier the notifications of an invocation are fixed
\* by tier and flag: the Alert tier posts exactly one, of high priority; the
\* Normal tier posts none with the send-even-if-normal flag off and exactly
\* one, of low priority, with it on; in neither tier is the safety gate read,
\* the inventory queried or an ActionExecutor operation called.
C11_NotificationsByTier ==
    (Where(IsBranch) # {} /\ TierTaken # "Critical") =>
        /\ Where(IsGate) = {}
        /\ Where(IsInventory) = {}
        /\ Where(IsAction) = {}
        /\ pc = "alert" \/ pc = "normal" => Notifications = <<>>
        /\ (Returned /\ TierTaken = "Alert") =>
              /\ Len(Notifications) = 1
              /\ Notifications[1].priority = "high"
              /\ Notifications[1].title = "AWS Cost Alert"
        /\ (Returned /\ TierTaken = "Normal") =>
              /\ Cardinality(Where(IsSummaryFlag)) = 1
              /\ \A i \in Where(IsSummaryFlag) :
                    IF events[i].value
                    THEN /\ Len(Notifications) = 1
                         /\ Notifications[1].priority = "low"
                         /\ Notifications[1].title = "AWS Cost Summary"
                    ELSE Notifications = <<>>

\* A Normal invocation with the flag on: one low-priority summary.
C11_Witness ==
    /\ Returned
    /\ TierTaken = "Normal"
    /\ \E i \in Where(IsSummaryFlag) : events[i].value
    /\ Len(Notifications) = 1
    /\ Notifications[1].priority = "low"

\* A step that posts a notification whose delivery succeeded (ok) or failed.
Posts(ok) ==
    /\ Next
    /\ Len(events') > Len(events)
    /\ IsNtfy(events'[Len(events')])
    /\ events'[Len(events')].ok = ok

\* Where the handler stands once send_ntfy_alert has returned: after the
\* warning (line 402) the action phase, after each post of
\* execute_resource_nuke its return statement, after the Alert and Normal
\* posts the handler's return.
AfterPost ==
    CASE pc = "warn_send" -> "nuke_gate"
      [] pc \in {"nuke_skip", "dry_send", "nuke_summary"} -> "nuke_return"
      [] pc \in {"alert", "normal"} -> "returned"
      [] OTHER -> "none"

\* A posting step that goes anywhere but on, touches the account, or reports
\* another alert_sent than sent.
PostsAndStrays(sent) ==
    /\ Posts(TRUE) \/ Posts(FALSE)
    /\ ~ /\ pc' = AfterPost
         /\ account' = account
         /\ response'.alert_sent = sent

IsFailedDelivery(e) == IsNtfy(e) /\ ~e.ok

\* C12: a failed delivery never blocks the rest of the workflow.  Wherever the
\* handler is about to post, the post can fail as well as succeed, and every
\* posting step, delivered or not, goes on to the same position with the same
\* alert_sent and an untouched account; a run in which a delivery failed never
\* raises, moves on right after the failed post, and its return carries the
\* summary; in the Critical tier the gate was still read, the second notice
\* still posted and the action's result still reported.
C12_DeliveryFailureNonBlocking ==
    /\ AfterPost # "none" =>
          /\ ENABLED Posts(TRUE)
          /\ ENABLED Posts(FALSE)
          /\ \E sent \in BOOLEAN : ~ENABLED PostsAndStrays(sent)
    /\ Where(IsFailedDelivery) # {} =>
          /\ pc # "raised"
          /\ Returned => response.alert_sent \in BOOLEAN
          /\ (Returned /\ TierTaken = "Critical") =>
                /\ Where(IsGate) # {}
                /\ Len(Notifications) = 2
                /\ response.nuke_result.status =
                      CASE Gate = "Skip" -> "skipped"
                        [] Gate = "DryRun" -> "dry_run"
                        [] OTHER -> "executed"
    /\ (events # <<>> /\ IsFailedDelivery(events[Len(events)])) =>
          Returned \/ ENABLED Next

\* Execute mode with both the warning and the completion notice undelivered
\* and a gateway deleted in between.
C12_Witness ==
    /\ Returned
    /\ Len(Notifications) = 2
    /\ \A k \in DOMAIN Notifications : ~Notifications[k].ok
    /\ \E i \in Where(IsAction) : events[i].ok
    /\ response.nuke_result.status = "executed"

\* The categories the dry run reported, and those Execute mode would call a
\* stop or delete operation for on the account as it stands: running
\* instances, available gateways, available databases.
DryRunListing ==
    {nuke_result.resources[k].category : k \in DOMAIN nuke_result.resources}

ExecuteTargets ==
    {c \in {"EC2 Instances", "NAT Gateways", "RDS Instances"} :
        \/ c = "EC2 Instances" /\ Count(ec2, {"running"}) > 0
        \/ c = "NAT Gateways" /\ Count(nat, {"available"}) > 0
        \/ c = "RDS Instances" /\ Count(rds, {"available"}) > 0}

\* Every account query of the listing was answered: what it counted is listed.
ListingAnswered ==
    /\ Count(ec2, {"running", "pending"}) > 0 => "EC2 Instances" \in DryRunListing
    /\ Count(rds, RdsStates) > 0 => "RDS Instances" \in DryRunListing
    /\ Count(nat, {"available", "pending"}) > 0 => "NAT Gateways" \in DryRunListing

DryRunReturns ==
    /\ pc = "nuke_return"
    /\ Where(IsGate) # {}
    /\ Gate = "DryRun"

\* C13: the listing a dry run reports is the set Execute mode would act upon
\* on the same account: once the dry run returns a listing whose queries were
\* all answered, a category is listed iff Execute would call a stop or delete
\* operation for it.
C13_DryRunListsExecuteTargets ==
    (DryRunReturns /\ ListingAnswered) => DryRunListing = ExecuteTargets

====
